---------------------------- MODULE Spec2Model ----------------------------
(***************************************************************************)
(* dagpipe: lazily evaluated DAG pipelines.                                *)
(*                                                                         *)
(* Two layers are modelled.                                                *)
(*   1. TaskParams (notebooks/args_uniforming.ipynb): binding of call      *)
(*      arguments against a signature, the args/kwargs views, update with  *)
(*      its task-overwrite assertions.  Specification SpecParams.          *)
(*   2. Pipeline / Task / StoppingTaskHolder as README.md documents them:  *)
(*      construction, run in execution order, conditional stops.           *)
(*      Specification Spec.                                                *)
(***************************************************************************)
EXTENDS Integers, Sequences, FiniteSets, TLC

(***************************************************************************)
(* Bounds of the model.                                                    *)
(***************************************************************************)
\* longest positional argument list passed to TaskParams(...) or update(...)
MaxArgs == 4
\* most keyword arguments passed in one call
MaxKw == 1
\* most argument values passed to one TaskParams object, over all its calls
MaxItems == 6
\* plain (non task) argument values are 0 .. MaxPlain; 0 is the falsy one
MaxPlain == 1
\* task objects that may be passed as argument values: 1 .. MaxTasks
MaxTasks == 1

(***************************************************************************)
(* Values.  A bound value is a plain Python value or a Task (TaskType); a  *)
(* key a dict does not hold reads as Absent (dict.get(name, None)).        *)
(***************************************************************************)
Plain(n) == [task |-> FALSE, v |-> n]

TaskRef(i) == [task |-> TRUE, v |-> i]

Absent == [task |-> FALSE, v |-> -1]

PlainVals == {Plain(n) : n \in 0..MaxPlain}

TaskVals == {TaskRef(i) : i \in 1..MaxTasks}

Vals == PlainVals \cup TaskVals

\* isinstance(x, TaskType)
IsTask(x) == x.task

\* Python truth value of a bound value, as `if arg := d.get(name, None)` tests it
Truthy(x) == x.task \/ x.v > 0

(***************************************************************************)
(* Signatures (inspect.signature(func)): the parameters in order.          *)
(***************************************************************************)
Param(n, k, d) == [name |-> n, kind |-> k, dflt |-> d]

\* def final_boss(a, b, *args, d=5, **kwargs_)
final_boss ==
    << Param("a", "POSITIONAL_OR_KEYWORD", FALSE),
       Param("b", "POSITIONAL_OR_KEYWORD", FALSE),
       Param("args", "VAR_POSITIONAL", FALSE),
       Param("d", "KEYWORD_ONLY", TRUE),
       Param("kwargs_", "VAR_KEYWORD", FALSE) >>

\* def A(param)  -- the entry task of the README pipeline
SigA == << Param("param", "POSITIONAL_OR_KEYWORD", FALSE) >>

\* def do_nothing(inp), def duplicate(inp), def split(inp)
SigInp == << Param("inp", "POSITIONAL_OR_KEYWORD", FALSE) >>

\* def foo(x)  -- the notebook's test cell
SigFoo == << Param("x", "POSITIONAL_OR_KEYWORD", FALSE) >>

\* def B(a)
SigB == << Param("a", "POSITIONAL_OR_KEYWORD", FALSE) >>

\* def C(b)
SigC == << Param("b", "POSITIONAL_OR_KEYWORD", FALSE) >>

\* def D(a, c)
SigD == << Param("a", "POSITIONAL_OR_KEYWORD", FALSE),
          Param("c", "POSITIONAL_OR_KEYWORD", FALSE) >>

\* def E(self, d)
SigE == << Param("self", "POSITIONAL_OR_KEYWORD", FALSE),
          Param("d", "POSITIONAL_OR_KEYWORD", FALSE) >>

\* def F(self, e)
SigF == << Param("self", "POSITIONAL_OR_KEYWORD", FALSE),
          Param("e", "POSITIONAL_OR_KEYWORD", FALSE) >>

\* def G(self, inp), def __call__(self, inp)
SigSelfInp == << Param("self", "POSITIONAL_OR_KEYWORD", FALSE),
                Param("inp", "POSITIONAL_OR_KEYWORD", FALSE) >>

\* def concat(inp1, inp2)
SigConcat == << Param("inp1", "POSITIONAL_OR_KEYWORD", FALSE),
               Param("inp2", "POSITIONAL_OR_KEYWORD", FALSE) >>

\* the signature of the function a task was created from, as the function is
\* written; "other" stands for a function without parameters and "explode"
\* for one of one parameter
SigOf(nm) ==
    CASE nm = "A" -> SigA
      [] nm = "B" -> SigB
      [] nm = "C" -> SigC
      [] nm = "D" -> SigD
      [] nm \in {"E", "ExampleClass.E"} -> SigE
      [] nm \in {"F", "ExampleClass.F"} -> SigF
      [] nm \in {"G", "ExampleClass.G", "__call__", "ExampleClass"} -> SigSelfInp
      [] nm = "concat" -> SigConcat
      [] nm = "foo" -> SigFoo
      [] nm = "other" -> << >>
      [] OTHER -> SigInp

\* keyword names a caller may use: the named parameters and two extra keywords
ExtraKeys == {"t", "e"}

AllKeys == {"a", "b", "c", "d", "self", "param", "inp", "inp1", "inp2", "x"} \cup ExtraKeys

EmptyDict == [k \in AllKeys |-> Absent]

DictKeys(d) == {k \in AllKeys : d[k] # Absent}

\* the keyword arguments of a call are written in order, name=value after
\* name=value, no name twice: a sequence of KwArg
KwArg(k, x) == [key |-> k, val |-> x]

\* the dict **kwargs a call arrives as
KwDict(kws) ==
    [k \in AllKeys |->
        IF \E i \in 1..Len(kws) : kws[i].key = k
        THEN kws[CHOOSE i \in 1..Len(kws) : kws[i].key = k].val
        ELSE Absent]

\* its keys in order (a dict keeps the order of insertion)
KwOrder(kws) == [i \in 1..Len(kws) |-> kws[i].key]

\* the names of the parameters of one kind, in declaration order
NamesOfKind(sig, kinds) ==
    LET sel == SelectSeq(sig, LAMBDA p : p.kind \in kinds)
    IN  [i \in 1..Len(sel) |-> sel[i].name]

SeqRange(s) == {s[i] : i \in 1..Len(s)}

\* TaskParams._find_param_name(kind): the first parameter of that kind, or None
find_param_name(sig, kind) ==
    LET ns == NamesOfKind(sig, {kind})
    IN  IF Len(ns) = 0 THEN "None" ELSE ns[1]

Min(x, y) == IF x < y THEN x ELSE y

(***************************************************************************)
(* inspect.Signature.bind / bind_partial.  The result .arguments holds the *)
(* named parameters given a value, the extra positionals under *args (only *)
(* when there is one at least) and the extra keywords under **kwargs (only *)
(* when there is one at least); an absent slot is the empty one here.      *)
(***************************************************************************)
SigBind(sig, args, kwargs, partial) ==
    LET pos == NamesOfKind(sig, {"POSITIONAL_OR_KEYWORD"})
        namedNames == SeqRange(NamesOfKind(sig, {"POSITIONAL_OR_KEYWORD", "KEYWORD_ONLY"}))
        hasVarargs == find_param_name(sig, "VAR_POSITIONAL") # "None"
        hasVarkw == find_param_name(sig, "VAR_KEYWORD") # "None"
        n == Len(args)
        np == Len(pos)
        m == Min(n, np)
        tooMany == n > np /\ ~hasVarargs
        multiple == \E i \in 1..m : kwargs[pos[i]] # Absent
        named == [k \in AllKeys |->
                    IF \E i \in 1..m : pos[i] = k
                    THEN args[CHOOSE i \in 1..m : pos[i] = k]
                    ELSE IF k \in namedNames THEN kwargs[k] ELSE Absent]
        missing == ~partial /\ \E i \in 1..Len(sig) :
                      /\ sig[i].kind \in {"POSITIONAL_OR_KEYWORD", "KEYWORD_ONLY"}
                      /\ ~sig[i].dflt
                      /\ named[sig[i].name] = Absent
        extra == [k \in AllKeys |-> IF k \in namedNames THEN Absent ELSE kwargs[k]]
        unexpected == DictKeys(extra) # {} /\ ~hasVarkw
    IN  [ok |-> ~(tooMany \/ multiple \/ missing \/ unexpected),
         named |-> named,
         varargs |-> IF n > np THEN SubSeq(args, np + 1, n) ELSE << >>,
         varkw |-> extra]

\* the keys of an .arguments dict
TopKeys(sig, p) ==
    DictKeys(p.named)
      \cup (IF p.varargs # << >> THEN {find_param_name(sig, "VAR_POSITIONAL")} ELSE {})
      \cup (IF DictKeys(p.varkw) # {} THEN {find_param_name(sig, "VAR_KEYWORD")} ELSE {})

(***************************************************************************)
(* TaskParams.__init__ and the helpers it calls.                           *)
(***************************************************************************)
\* _filter_tasks_from_parameters: the names whose value is a task
filter_tasks_from_parameters(p) == {k \in AllKeys : p.named[k] # Absent /\ IsTask(p.named[k])}

\* any(isinstance(arg, TaskType) for arg in varargs)
AnyTask(s) == \E i \in 1..Len(s) : IsTask(s[i])

\* all(isinstance(arg, TaskType) for arg in varargs)
AllTasks(s) == \A i \in 1..Len(s) : IsTask(s[i])

\* (mutant) only the first extra positional is looked at for being a task
MixedVarargsFirstOnly(s) == s # << >> /\ IsTask(s[1]) /\ ~AllTasks(s)

\* __assert_all_varargs_are_tasks raises ValueError on a mixed collection
MixedVarargs(s) == AnyTask(s) /\ ~AllTasks(s)

\* _are_all_varargs_tasks (when it does not raise)
are_all_varargs_tasks(p) == p.varargs # << >> /\ AnyTask(p.varargs)

\* _get_tasks_from_varkwargs
get_tasks_from_varkwargs(p) ==
    [k \in AllKeys |-> IF p.varkw[k] # Absent /\ IsTask(p.varkw[k]) THEN p.varkw[k] ELSE Absent]

NoParams == [named |-> EmptyDict, varargs |-> << >>, varkw |-> EmptyDict]

\* the keys of _get_tasks_from_varkwargs in the order of the dict: the order
\* in which the constructor call wrote them
tasks_in_varkwargs_order(p, order) ==
    SelectSeq(order, LAMBDA k : p.varkw[k] # Absent /\ IsTask(p.varkw[k]))

NoBinder ==
    [exists |-> FALSE, sig |-> << >>, parameters |-> NoParams,
     task_params_names |-> {}, all_varargs_are_tasks |-> FALSE,
     tasks_in_varkwargs |-> EmptyDict, tasks_in_varkwargs_order |-> << >>]

\* def __init__(self, func, *init_args, **init_kwargs) and
\* def update(self, *args, **kwargs) have named parameters of their own: a
\* keyword of such a name meets the positional argument already given, and
\* the call raises TypeError (got multiple values for argument) before the
\* body runs
InitOwnNames == {"self", "func"}

UpdateOwnNames == {"self"}

GivenTwice(own, kws) == \E i \in 1..Len(kws) : kws[i].key \in own

\* TaskParams(func, *init_args, **init_kwargs): the error raised, and the object
TaskParamsInit(sig, init_args, init_kwargs) ==
    LET b == SigBind(sig, init_args, KwDict(init_kwargs), FALSE)
        p == [named |-> b.named, varargs |-> b.varargs, varkw |-> b.varkw]
    IN  IF GivenTwice(InitOwnNames, init_kwargs)
        THEN [err |-> "CallTypeError", obj |-> NoBinder]
        ELSE IF ~b.ok THEN [err |-> "BindTypeError", obj |-> NoBinder]
        ELSE IF MixedVarargs(p.varargs) THEN [err |-> "ValueError", obj |-> NoBinder]
        ELSE [err |-> "none",
              obj |-> [exists |-> TRUE, sig |-> sig, parameters |-> p,
                       task_params_names |-> filter_tasks_from_parameters(p),
                       all_varargs_are_tasks |-> are_all_varargs_tasks(p),
                       tasks_in_varkwargs |-> get_tasks_from_varkwargs(p),
                       tasks_in_varkwargs_order |->
                           tasks_in_varkwargs_order(p, KwOrder(init_kwargs))]]

(***************************************************************************)
(* TaskParams.update and its assertions.                                   *)
(***************************************************************************)
\* __assert_tasks_are_not_overwritten_in_arguments raises
overwritten_in_arguments(tp, new) ==
    \E name \in tp.task_params_names : name \in TopKeys(tp.sig, new)

\* __assert_tasks_are_not_overwritten_in_varargs raises
overwritten_in_varargs(tp, new) == tp.all_varargs_are_tasks /\ new.varargs # << >>

\* __assert_tasks_are_not_overwritten_in_varkwargs reaches its raise statement
overwritten_in_varkwargs(tp, new) ==
    /\ find_param_name(tp.sig, "VAR_KEYWORD") # "None"
    /\ DictKeys(new.varkw) # {}
    /\ DictKeys(tp.tasks_in_varkwargs) \cap DictKeys(new.varkw) # {}

\* what that raise statement raises, for the first name of
\* self._tasks_in_varkwargs that is in the new **kwargs: its message reads
\* self._parameters[name] and new_arguments[name], name being a key of
\* **kwargs and, unless a parameter has that name too, no key of those
varkwargs_raise(tp, new) ==
    LET hit == SelectSeq(tp.tasks_in_varkwargs_order, LAMBDA k : k \in DictKeys(new.varkw))
        name == hit[1]
    IN  IF name \in TopKeys(tp.sig, tp.parameters) /\ name \in TopKeys(tp.sig, new)
        THEN "OverwriteTypeError"
        ELSE "KeyError"

\* (mutant) every entry bound under **kwargs before is merged back, the plain
\* ones as well
update_varkwargs_with_all_entries(tp, new) ==
    IF DictKeys(new.varkw) # {}
    THEN [new EXCEPT !.varkw =
            [k \in AllKeys |-> IF new.varkw[k] # Absent
                               THEN new.varkw[k]
                               ELSE tp.parameters.varkw[k]]]
    ELSE new

\* __update_varkwargs_with_varkwargs_tasks
update_varkwargs_with_varkwargs_tasks(tp, new) ==
    IF DictKeys(new.varkw) # {}
    THEN [new EXCEPT !.varkw =
            [k \in AllKeys |-> IF tp.tasks_in_varkwargs[k] # Absent
                               THEN tp.tasks_in_varkwargs[k]
                               ELSE new.varkw[k]]]
    ELSE new

\* (mutant) the new arguments replace the whole mapping
AssignOnlyNew(old, new) == new

\* for arg_name, value in new_arguments.items(): self._parameters[arg_name] = value
AssignAll(old, new) ==
    [named |-> [k \in AllKeys |-> IF new.named[k] # Absent THEN new.named[k] ELSE old.named[k]],
     varargs |-> IF new.varargs # << >> THEN new.varargs ELSE old.varargs,
     varkw |-> IF DictKeys(new.varkw) # {} THEN new.varkw ELSE old.varkw]

\* TaskParams.update(*args, **kwargs): the error raised, and the object afterwards
Update(tp, args, kwargs) ==
    LET b == SigBind(tp.sig, args, KwDict(kwargs), TRUE)
        new == [named |-> b.named, varargs |-> b.varargs, varkw |-> b.varkw]
    IN  IF GivenTwice(UpdateOwnNames, kwargs) THEN [err |-> "CallTypeError", obj |-> tp]
        ELSE IF ~b.ok THEN [err |-> "BindTypeError", obj |-> tp]
        ELSE IF overwritten_in_arguments(tp, new) THEN [err |-> "OverwriteTypeError", obj |-> tp]
        ELSE IF overwritten_in_varargs(tp, new) THEN [err |-> "OverwriteTypeError", obj |-> tp]
        ELSE IF overwritten_in_varkwargs(tp, new) THEN [err |-> varkwargs_raise(tp, new), obj |-> tp]
        ELSE [err |-> "none",
              obj |-> [tp EXCEPT !.parameters =
                         AssignAll(tp.parameters, update_varkwargs_with_varkwargs_tasks(tp, new))]]


(***************************************************************************)
(* The read-only views TaskParams.args and TaskParams.kwargs.              *)
(***************************************************************************)
\* args: the parameters before the first KEYWORD_ONLY / VAR_KEYWORD one, each
\* appended when `arg := self._parameters.get(param_name, None)` is truthy,
\* *args extended in place
RECURSIVE ArgsFrom(_, _)
ArgsFrom(tp, i) ==
    IF i > Len(tp.sig) \/ tp.sig[i].kind \in {"VAR_KEYWORD", "KEYWORD_ONLY"}
    THEN << >>
    ELSE (IF tp.sig[i].kind = "VAR_POSITIONAL"
          THEN tp.parameters.varargs
          ELSE IF Truthy(tp.parameters.named[tp.sig[i].name])
               THEN << tp.parameters.named[tp.sig[i].name] >>
               ELSE << >>)
         \o ArgsFrom(tp, i + 1)

Args(tp) == ArgsFrom(tp, 1)

\* kwargs_started becomes true at the first KEYWORD_ONLY / VAR_KEYWORD parameter
\* or at the first parameter that is not in self._parameters
KwargsStart(tp) ==
    LET started == {i \in 1..Len(tp.sig) :
                      \/ tp.sig[i].kind \in {"VAR_KEYWORD", "KEYWORD_ONLY"}
                      \/ tp.sig[i].name \notin TopKeys(tp.sig, tp.parameters)}
    IN  IF started = {} THEN Len(tp.sig) + 1
        ELSE CHOOSE i \in started : \A j \in started : i <= j

\* kwargs: from there on every named parameter whose value is truthy, and the
\* entries of **kwargs merged flat
Kwargs(tp) ==
    LET late == {tp.sig[i].name : i \in KwargsStart(tp)..Len(tp.sig)}
    IN  [k \in AllKeys |->
            IF k \in late /\ Truthy(tp.parameters.named[k]) THEN tp.parameters.named[k]
            ELSE tp.parameters.varkw[k]]

\* Task.evaluated_result of a task held as an argument: a plain value, told
\* apart from the plain values callers pass
evaluated_result(x) == [task |-> FALSE, v |-> MaxPlain + x.v]

\* evaluated_args: tuple(a.evaluated_result if isinstance(a, TaskType) else a
\*                       for a in self.args)
evaluated_args(tp) ==
    [i \in 1..Len(Args(tp)) |->
        IF IsTask(Args(tp)[i]) THEN evaluated_result(Args(tp)[i]) ELSE Args(tp)[i]]

\* (mutant) the keyword view is handed on without evaluating its tasks
evaluated_kwargs_as_bound(tp) == Kwargs(tp)

\* evaluated_kwargs: {k: v.evaluated_result if isinstance(v, TaskType) else v
\*                     for k, v in self.kwargs.items()}
evaluated_kwargs(tp) ==
    [k \in AllKeys |->
        IF IsTask(Kwargs(tp)[k]) THEN evaluated_result(Kwargs(tp)[k]) ELSE Kwargs(tp)[k]]


(***************************************************************************)
(* Pipelines.  A task is created by calling a decorated function: it has a *)
(* display name, a number of outputs and, as arguments, references to      *)
(* (task, output slot) pairs created before it.  Tasks are numbered in the *)
(* order of their creation.  The entry task takes the pipeline's input.    *)
(***************************************************************************)
\* entry arguments are the plain values 1 .. MaxInput: the inputs of the README
\* runs, 1 for the int 5, 2 for the str "5", 3 for the list
\* ["*first element*", "@second element@"], and on in that pattern (an even
\* number is a str of one character)
MaxInput == 3

Inputs == 1..MaxInput

\* the type of the value an input number stands for
InputType(x) == IF x % 2 = 0 THEN "str" ELSE IF x % 4 = 3 THEN "list" ELSE "int"

Ref(n, k) == [node |-> n, slot |-> k]

TaskDef(nm, o, d) == [name |-> nm, outs |-> o, deps |-> d]

\* README "conditional_stops":
\*   Pipeline.sequential([do_nothing, duplicate, duplicate], conditional_stops=...)
SeqTasks ==
    << TaskDef("do_nothing", 1, << >>),
       TaskDef("duplicate", 1, << Ref(1, 1) >>),
       TaskDef("duplicate", 1, << Ref(2, 1) >>) >>

\* README "Task" / "Pipeline": a = A(param=..), b = B(a), c = C(b), d = D(a, c),
\* e = example.E(d), f = example.F(e), g = example.G(c), ec = example(g)
DagTasks ==
    << TaskDef("A", 1, << >>),
       TaskDef("B", 1, << Ref(1, 1) >>),
       TaskDef("C", 1, << Ref(2, 1) >>),
       TaskDef("D", 1, << Ref(1, 1), Ref(3, 1) >>),
       TaskDef("ExampleClass.E", 1, << Ref(4, 1) >>),
       TaskDef("ExampleClass.F", 1, << Ref(5, 1) >>),
       TaskDef("ExampleClass.G", 1, << Ref(3, 1) >>),
       TaskDef("ExampleClass", 1, << Ref(7, 1) >>) >>

\* README "Output split": x1 = do_nothing(Any), x2, x3 = split(x1),
\* x5 = duplicate(x3), x6 = concat(x2, x5)
SplitTasks ==
    << TaskDef("do_nothing", 1, << >>),
       TaskDef("split", 2, << Ref(1, 1) >>),
       TaskDef("duplicate", 1, << Ref(2, 2) >>),
       TaskDef("concat", 1, << Ref(2, 1), Ref(3, 1) >>) >>

\* Pipeline(input, outputs, conditional_stops): stops holds the task names
\* that have a predicate (the README's is_string)
PipelineDef(t, i, o, s) == [tasks |-> t, input |-> i, outputs |-> o, stops |-> s]

Pipelines ==
    { PipelineDef(SeqTasks, 1, << Ref(3, 1) >>, {"do_nothing"}),
      PipelineDef(SeqTasks, 1, << Ref(3, 1) >>, {"duplicate"}),
      PipelineDef(SeqTasks, 1, << Ref(3, 1), Ref(1, 1) >>, {"duplicate"}),
      PipelineDef(DagTasks, 1, << Ref(6, 1), Ref(8, 1) >>, {}),
      PipelineDef(DagTasks, 1, << Ref(8, 1), Ref(4, 1) >>, {"D", "ExampleClass.G"}),
      PipelineDef(DagTasks, 1, << Ref(3, 1) >>, {"C"}),
      PipelineDef(SplitTasks, 1, << Ref(4, 1) >>, {}),
      PipelineDef(SplitTasks, 1, << Ref(4, 1), Ref(2, 2) >>, {"duplicate"}),
      PipelineDef(SplitTasks, 1, << Ref(4, 1), Ref(2, 2) >>, {"do_nothing"}) }

\* the distinct producer tasks a task's bound arguments refer to
DependenciesOf(p, n) == {p.tasks[n].deps[i].node : i \in 1..Len(p.tasks[n].deps)}

\* backward traversal from the outputs along the dependency edges
RECURSIVE Backward(_, _)
Backward(p, found) ==
    LET more == found \cup UNION {DependenciesOf(p, n) : n \in found}
    IN  IF more = found THEN found ELSE Backward(p, more)

Reachable(p) == Backward(p, {p.outputs[i].node : i \in 1..Len(p.outputs)})

\* (mutant) ties are broken against the creation order: the last created
\* ready task runs next
NextReadyLastCreated(p, todo) ==
    LET ready == {n \in todo : DependenciesOf(p, n) \cap todo = {}}
    IN  CHOOSE n \in ready : \A m \in ready : n >= m

\* the task to run next: the first created one among those whose dependencies
\* have all been placed
NextReady(p, todo) ==
    LET ready == {n \in todo : DependenciesOf(p, n) \cap todo = {}}
    IN  CHOOSE n \in ready : \A m \in ready : n <= m

RECURSIVE TopoFrom(_, _)
TopoFrom(p, todo) ==
    IF todo = {} THEN << >>
    ELSE LET n == NextReady(p, todo)
         IN  << n >> \o TopoFrom(p, todo \ {n})

\* (mutant) the reachable tasks in the order the backward traversal meets them
RECURSIVE Reversed(_)
Reversed(s) == IF s = << >> THEN << >> ELSE Reversed(Tail(s)) \o << Head(s) >>

ExecutionOrderBackward(p) == Reversed(TopoFrom(p, Reachable(p)))

\* Pipeline.tasks: the reachable tasks sorted in execution order
ExecutionOrder(p) == TopoFrom(p, Reachable(p))

(***************************************************************************)
(* Pipeline construction: the backward traversal from the outputs fails on *)
(* a cycle and on an output that is not connected to the entry task.       *)
(***************************************************************************)
\* (mutant) the tasks met on other branches count as being on the path
RECURSIVE MeetsCycleAcrossBranches(_, _, _)
MeetsCycleAcrossBranches(p, n, path) ==
    \/ n \in path
    \/ \E d \in DependenciesOf(p, n) :
          MeetsCycleAcrossBranches(p, d, path \cup {n} \cup (DependenciesOf(p, n) \ {d}))

\* the depth-first traversal from task n revisits a task that is on the
\* current traversal path
RECURSIVE MeetsCycle(_, _, _)
MeetsCycle(p, n, path) ==
    \/ n \in path
    \/ \E d \in DependenciesOf(p, n) : MeetsCycle(p, d, path \cup {n})

\* the backward traversal from output o reaches the entry task
Connected(p, o) == p.input \in Backward(p, {o})

\* the outputs the traversal cannot accept, in declaration order
BadOutputs(p) ==
    {i \in 1..Len(p.outputs) :
        MeetsCycle(p, p.outputs[i].node, {}) \/ ~Connected(p, p.outputs[i].node)}

\* The outcome of Pipeline(input, outputs, conditional_stops).  The spec
\* names two failures, an output that is not reachable from the entry task
\* and a cycle met by the traversal, and fixes no order between them: it does
\* not say which one is reported for a graph that has both (reachFirst: the
\* outputs are checked for their connection to the entry task before a cycle
\* is looked for), nor whether an output is checked as soon as its own
\* traversal ends (perOutput) or after the traversal from every output.
\* Every order is modelled.
BuildOutcome(p, perOutput, reachFirst) ==
    LET bad == BadOutputs(p)
        first == CHOOSE i \in bad : \A j \in bad : i <= j
        met == IF perOutput
               THEN MeetsCycle(p, p.outputs[first].node, {})
               ELSE \E i \in bad : MeetsCycle(p, p.outputs[i].node, {})
    IN  IF bad = {} THEN "built"
        ELSE IF reachFirst /\ \E i \in bad : ~Connected(p, p.outputs[i].node)
             THEN "UnreachableOutputError"
        ELSE IF met THEN "CycleError"
        ELSE "UnreachableOutputError"


(***************************************************************************)
(* Results.  A task's result is written as the sequence of integers        *)
(* <<task, slot>> \o (its evaluated arguments, one after the other), the   *)
(* way the README's tasks return "Output of C with <input>", followed by a *)
(* mark when the function returns a str its last argument does not show:   *)
(* 0 for a str of two characters or more, -1 for a str of one character.   *)
(* A value that ends with an input number has the type of that input, a    *)
(* str input being the one character "5".  An element of the list          *)
(* Pipeline.run returns is a result or a StoppingTaskHolder.               *)
(***************************************************************************)
Value(v) == [stop |-> FALSE, name |-> "", val |-> v]

\* StoppingTaskHolder: prints as "STOPPED AT <name>"
StoppingTaskHolder(nm) == [stop |-> TRUE, name |-> nm, val |-> << >>]

\* StoppingTaskHolder.in_(outputs)
In_(outputs) == \E i \in 1..Len(outputs) : outputs[i].stop

\* type(x) of a value
TypeOf(v) ==
    IF v = << >> THEN "none"
    ELSE IF v[Len(v)] <= 0 THEN "str"
    ELSE InputType(v[Len(v)])

\* a str of one character: an input that is a str, or a character split took
\* from a str
OneChar(v) ==
    /\ v # << >>
    /\ \/ v[Len(v)] = -1
       \/ v[Len(v)] > 0 /\ InputType(v[Len(v)]) = "str"

\* the README's predicate is_string(x): isinstance(x, str)
is_string(v) == TypeOf(v) = "str"

\* (mutant) creating a task calls its function at once: every task holds a
\* result before any run
CacheFilledAtCreation(p) == [n \in 1..Len(p.tasks) |-> [k \in 1..p.tasks[n].outs |-> << n, k >>]]

\* a task that was created and never run holds no result
NoCache(p) == [n \in 1..Len(p.tasks) |-> [k \in 1..p.tasks[n].outs |-> << >>]]

\* (mutant) every argument reads the first output slot of its producer
RECURSIVE EvaluatedDepsFirstSlot(_, _, _)
EvaluatedDepsFirstSlot(deps, c, i) ==
    IF i > Len(deps) THEN << >>
    ELSE c[deps[i].node][1] \o EvaluatedDepsFirstSlot(deps, c, i + 1)

\* TaskParams.evaluated_args for a task whose arguments are tasks: each is
\* replaced by the evaluated_result its producer holds
RECURSIVE EvaluatedDeps(_, _, _)
EvaluatedDeps(deps, c, i) ==
    IF i > Len(deps) THEN << >>
    ELSE c[deps[i].node][deps[i].slot] \o EvaluatedDeps(deps, c, i + 1)

\* TaskParams.evaluated_args of the entry task: its plain bound values
EvaluatedEntry(tp) == [i \in 1..Len(Args(tp)) |-> Args(tp)[i].v]

\* the evaluated arguments Task.run() calls the callable with
TaskInputs(p, n, tp, c) ==
    IF n = p.input THEN EvaluatedEntry(tp) ELSE EvaluatedDeps(p.tasks[n].deps, c, 1)

\* the evaluated arguments, one value for each argument
ArgValues(p, n, tp, c) ==
    IF n = p.input THEN << EvaluatedEntry(tp) >>
    ELSE [i \in 1..Len(p.tasks[n].deps) |->
             c[p.tasks[n].deps[i].node][p.tasks[n].deps[i].slot]]

\* the README functions that return an f-string, "Output of A with {param}":
\* a str whatever they are given
Formats(nm) ==
    nm \in {"A", "B", "C", "D", "ExampleClass.E", "ExampleClass.F", "ExampleClass.G",
            "ExampleClass"}

\* the mark a function puts behind what it was given.  An f-string is a str;
\* split returns inp[0] and inp[1], the items of a list (the README list
\* holds strs) or the characters of a str; duplicate (inp*2) and concat
\* (inp1 + inp2) return a value of the type they were given, a str of two
\* characters at least; do_nothing and foo return what they were given.
ResultMark(nm, argv) ==
    IF Formats(nm) THEN << 0 >>
    ELSE IF nm = "split"
         THEN (IF TypeOf(argv[1]) = "list" THEN << 0 >>
               ELSE IF TypeOf(argv[1]) = "str" THEN << -1 >>
               ELSE << >>)
    ELSE IF nm \in {"duplicate", "concat"} /\ OneChar(argv[Len(argv)]) THEN << 0 >>
    ELSE << >>

\* Task.run(): the callable applied to the evaluated arguments, one result
\* for each declared output
TaskRun(p, n, tp, c) ==
    [k \in 1..p.tasks[n].outs |->
        << n, k >> \o TaskInputs(p, n, tp, c)
                  \o ResultMark(p.tasks[n].name, ArgValues(p, n, tp, c))]

\* the number of items the callable of a task returns: the README's split
\* returns inp[0], inp[1], every other function one value
ReturnCount(nm) == IF nm = "split" THEN 2 ELSE 1

\* (mutant) the number of returned items is never compared with outputs_num
ArityErrorNever(p, n) == FALSE

\* Task.run on a task declared with more than one output: the return value
\* must have exactly that many items
ArityError(p, n) == p.tasks[n].outs > 1 /\ ReturnCount(p.tasks[n].name) # p.tasks[n].outs

\* the README's split, return inp[0], inp[1]: it raises TypeError on an int
\* and IndexError on a str of one character, and returns on a list and on a
\* longer str
SplitRaises(v) == TypeOf(v) = "int" \/ OneChar(v)

\* the README's concat, return inp1 + inp2: TypeError unless both are of one
\* type
ConcatRaises(argv) == Len(argv) = 2 /\ TypeOf(argv[1]) # TypeOf(argv[2])

\* a callable that raises: split and concat as above, and the task named
\* "explode" when what it is given was computed from the smallest input
Raises(p, n, tp, c) ==
    LET ins == TaskInputs(p, n, tp, c)
        argv == ArgValues(p, n, tp, c)
    IN  \/ p.tasks[n].name = "explode" /\ ins # << >> /\ ins[Len(ins)] = 1
        \/ p.tasks[n].name = "split" /\ SplitRaises(argv[1])
        \/ p.tasks[n].name = "concat" /\ ConcatRaises(argv)

\* the error Task.run ends with: the callable's own, or the output-arity
\* error when the callable returned
ErrorOf(p, n, tp, c) == IF Raises(p, n, tp, c) THEN "raised" ELSE "OutputArityError"

\* (mutant) a failed run wipes the results the tasks hold
CacheWipedByRaise(p, c) == NoCache(p)

\* the results the tasks hold after a callable has raised: as they were
CacheAfterRaise(p, c) == c

\* (mutant) the conditional stops are never looked at
StopFiresNever(p, n, res) == FALSE

\* (mutant) a task that has a conditional stop halts the run whatever its
\* predicate returns
StopFiresByName(p, n, res) == p.tasks[n].name \in p.stops

\* the conditional stop registered under the task's name fires on its result
StopFires(p, n, res) == p.tasks[n].name \in p.stops /\ is_string(res[1])

\* Pipeline.run completed: one result for each declared output, in order
NormalResult(p, c) ==
    [i \in 1..Len(p.outputs) |-> Value(c[p.outputs[i].node][p.outputs[i].slot])]

\* (mutant) a stopped run returns what the first declared output holds
HaltedResultOfOutput(p, c, n) ==
    << Value(c[p.outputs[1].node][p.outputs[1].slot]), StoppingTaskHolder(p.tasks[n].name) >>

\* (mutant) a stopped run resolves each declared output: the result of a
\* producer that has run, a StoppingTaskHolder for the others
HaltedResultPerOutput(p, c, n) ==
    [i \in 1..Len(p.outputs) |->
        IF p.outputs[i].node <= n /\ c[p.outputs[i].node][p.outputs[i].slot] # << >>
        THEN Value(c[p.outputs[i].node][p.outputs[i].slot])
        ELSE StoppingTaskHolder(p.tasks[n].name)]

\* Pipeline.run stopped at task n: README, "given task output returned with
\* StoppingTaskHolder as second list element"
HaltedResult(p, c, n) == << Value(c[n][1]), StoppingTaskHolder(p.tasks[n].name) >>

NoRet == [outcome |-> "none", result |-> << >>, at |-> 0]

(***************************************************************************)
(* State.                                                                  *)
(***************************************************************************)
VARIABLES
    tp,       \* the TaskParams object under test (SpecParams), or NoBinder
    last,     \* the last TaskParams call: its kind, its error, what it named
    pl,       \* the Pipeline: tasks, input, outputs, conditional_stops
    order,    \* the execution order fixed when the Pipeline was built
    entry,    \* the TaskParams of the entry task
    cache,    \* evaluated_result of every task, for each output slot
    pc,       \* "idle", or "running" inside Pipeline.run
    pos,      \* index in order of the task to run next
    ran,      \* the tasks run so far in the current run, in order
    stale,    \* a task of the current run read a result of an earlier run
    ret,      \* what the last Pipeline.run returned
    callArg,  \* the input the last run was called with, 0 for run()
    lastX,    \* the input most recently supplied to a run
    argRet,   \* what the last run that was given an input returned
    seen,     \* for each input, what the first run with it returned
    again,    \* the last run was given an input that an earlier run had
    built     \* the outcome of the last Pipeline(...) and what it was given

vars == << tp, last, pl, order, entry, cache, pc, pos, ran, stale, ret,
           callArg, lastX, argRet, seen, again, built >>

paramsVars == << tp, last >>

pipeVars == << pl, order, entry, cache, pc, pos, ran, stale, ret, callArg,
               lastX, argRet, seen, again, built >>

NoLast ==
    [op |-> "none", err |-> "none", bindOk |-> FALSE, hitNamedTask |-> FALSE,
     shape |-> "none", kwKeys |-> {}, namedKeys |-> {}, dropped |-> {}, n |-> 0,
     tick |-> FALSE]

\* the entry task as the README creates it, A(param=..) or do_nothing(Any):
\* the function nm called with one value
EntryInit(nm, x) == TaskParamsInit(SigOf(nm), << Plain(x) >>, << >>).obj

InitPipeline(p, x) ==
    /\ pl = p
    /\ order = ExecutionOrder(p)
    /\ entry = IF p.input = 0 THEN NoBinder ELSE EntryInit(p.tasks[p.input].name, x)
    /\ cache = NoCache(p)
    /\ pc = "idle"
    /\ pos = 1
    /\ ran = << >>
    /\ stale = FALSE
    /\ ret = NoRet
    /\ callArg = 0
    /\ lastX = x
    /\ argRet = NoRet
    /\ seen = [y \in Inputs |-> NoRet]
    /\ again = FALSE
    /\ built = [outcome |-> "built", of |-> p, reachFirst |-> FALSE]

Init ==
    /\ tp = NoBinder
    /\ last = NoLast
    /\ \E p \in Pipelines, x \in Inputs : InitPipeline(p, x)

(***************************************************************************)
(* Pipeline.run.                                                          *)
(***************************************************************************)
RunArgs == {<< >>} \cup {<< Plain(x) >> : x \in Inputs}

\* the keywords run is called with: the parameter names of the entry functions
EntryKeys == {"param", "inp", "x"}

RunKwargs == {<< >>} \cup {<< KwArg(k, Plain(x)) >> : k \in EntryKeys, x \in Inputs}

\* the input a call supplies, 0 when it supplies none
Supplied(args, kwargs) ==
    IF args # << >> THEN args[1].v
    ELSE IF kwargs # << >> THEN kwargs[1].val.v
    ELSE 0

\* run starts: the arguments go to the entry task's update; an error of update
\* propagates and nothing else happens
RunCall(args, kwargs) ==
    /\ pc = "idle"
    /\ LET r == Update(entry, args, kwargs)
       IN  IF r.err # "none"
           THEN /\ ret' = [outcome |-> "raised", result |-> << >>, at |-> 0]
                /\ UNCHANGED << entry, pc, pos, ran, stale, callArg, lastX >>
           ELSE /\ entry' = r.obj
                /\ pc' = "running"
                /\ pos' = 1
                /\ ran' = << >>
                /\ stale' = FALSE
                /\ callArg' = Supplied(args, kwargs)
                /\ lastX' = IF Supplied(args, kwargs) # 0 THEN Supplied(args, kwargs) ELSE lastX
                /\ ret' = NoRet
    /\ UNCHANGED << tp, last, pl, order, cache, argRet, seen, again, built >>

\* the bookkeeping of a run that returns r
Returns(r) ==
    /\ ret' = r
    /\ pc' = "idle"
    /\ argRet' = IF callArg # 0 THEN r ELSE argRet
    /\ seen' = IF seen[lastX] = NoRet THEN [seen EXCEPT ![lastX] = r] ELSE seen
    /\ again' = (seen[lastX] # NoRet)

\* the next task of the execution order runs; if its callable raises or
\* returns a number of items other than its outputs_num, the error leaves
\* run; else its conditional stop, if it has one, is applied to its result
EvalNext ==
    /\ pc = "running"
    /\ pos <= Len(order)
    /\ LET n == order[pos]
           res == TaskRun(pl, n, entry, cache)
           c == [cache EXCEPT ![n] = res]
       IN  IF Raises(pl, n, entry, cache) \/ ArityError(pl, n)
           THEN /\ cache' = CacheAfterRaise(pl, cache)
                /\ Returns([outcome |-> ErrorOf(pl, n, entry, cache), result |-> << >>,
                            at |-> n])
                /\ UNCHANGED << ran, stale, pos >>
           ELSE /\ cache' = c
                /\ ran' = Append(ran, n)
                /\ stale' = (stale \/ \E d \in DependenciesOf(pl, n) : d \notin SeqRange(ran))
                /\ IF StopFires(pl, n, res)
                   THEN /\ Returns([outcome |-> "halted", result |-> HaltedResult(pl, c, n),
                                    at |-> n])
                        /\ pos' = pos
                   ELSE /\ pos' = pos + 1
                        /\ UNCHANGED << ret, pc, argRet, seen, again >>
    /\ UNCHANGED << tp, last, pl, order, entry, callArg, lastX, built >>

\* every task has run: the results of the outputs are returned
Return ==
    /\ pc = "running"
    /\ pos > Len(order)
    /\ Returns([outcome |-> "completed", result |-> NormalResult(pl, cache), at |-> 0])
    /\ UNCHANGED << tp, last, pl, order, entry, cache, pos, ran, stale, callArg, lastX,
                    built >>

Next ==
    \/ \E args \in RunArgs, kwargs \in RunKwargs : RunCall(args, kwargs)
    \/ EvalNext
    \/ Return

Spec == Init /\ [][Next]_vars


(***************************************************************************)
(* Properties of Pipeline.run (specification Spec).                        *)
(***************************************************************************)
Finished == pc = "idle" /\ ret.outcome \in {"completed", "halted"}

\* the input a result was computed from: its last element that is not the
\* mark of a str
RECURSIVE InputOf(_)
InputOf(v) == IF v[Len(v)] <= 0 THEN InputOf(SubSeq(v, 1, Len(v) - 1)) ELSE v[Len(v)]

Halted == pc = "idle" /\ ret.outcome = "halted"

Earlier(n) == {ran[j] : j \in 1..(n - 1)}

\* the conditional stop of a task that has run is truthy on the result it holds
Fires(n) == pl.tasks[n].name \in pl.stops /\ is_string(cache[n][1])

\* C1: in every run, each task a task depends on has completed its
\* evaluation in this run before the task starts, and the result a task of
\* this run holds was computed from the results its producers hold from this
\* run, never from a result of an earlier run.
C1_DependenciesFirst ==
    /\ ~stale
    /\ \A i \in 1..Len(ran) :
          /\ DependenciesOf(pl, ran[i]) \subseteq Earlier(i)
          /\ cache[ran[i]] = TaskRun(pl, ran[i], entry, cache)

\* C1 witness: in a run that follows another one, the README's D(a, c) has run
C1_Witness ==
    /\ pc = "running"
    /\ argRet # NoRet
    /\ Len(pl.tasks) = 8
    /\ 4 \in SeqRange(ran)
    /\ InputOf(cache[4][1]) = lastX
    /\ \E y \in Inputs : y # lastX /\ seen[y] # NoRet

\* C2: when the conditional stop registered under task N's name is truthy
\* on N's fresh result the run halts at once: the tasks run are exactly the
\* execution order up to N, N ran once, no later task ran; and a run goes on
\* only past tasks whose conditional stop did not fire.
C2_HaltsImmediately ==
    /\ pc = "running" => \A i \in 1..Len(ran) : ~Fires(ran[i])
    /\ (pc = "idle" /\ ret.outcome = "completed") => \A i \in 1..Len(ran) : ~Fires(ran[i])
    /\ Halted =>
          /\ Fires(ret.at)
          /\ Len(ran) <= Len(order)
          /\ ran = SubSeq(order, 1, Len(ran))
          /\ ran[Len(ran)] = ret.at
          /\ Cardinality({i \in 1..Len(ran) : ran[i] = ret.at}) = 1
          /\ \A i \in (Len(ran) + 1)..Len(order) : order[i] \notin SeqRange(ran)

\* C2 witness: a run halted at a task that is not the last of the order, the
\* tasks after it holding nothing or what an earlier run left
C2_Witness ==
    /\ Halted
    /\ Len(ran) < Len(order)
    /\ ret.at # pl.input
    /\ \E i \in (Len(ran) + 1)..Len(order) : cache[order[i]][1] # << >>

\* the result list a halted run returns when each declared output is
\* resolved on its own: the producer's result when it ran in this run, a
\* StoppingTaskHolder naming the halting task otherwise
PerOutputResolution ==
    [i \in 1..Len(pl.outputs) |->
        IF pl.outputs[i].node \in SeqRange(ran)
        THEN Value(cache[pl.outputs[i].node][pl.outputs[i].slot])
        ELSE StoppingTaskHolder(pl.tasks[ret.at].name)]

\* C3: on a halted run every declared output whose producer ran
\* before the halt resolves to the producer's result, every other declared
\* output to a StoppingTaskHolder naming the halting task, never to a value
\* an earlier run left.
C3_PerOutputResolved ==
    Halted => \A i \in 1..Len(pl.outputs) :
                 /\ i <= Len(ret.result)
                 /\ ret.result[i] = PerOutputResolution[i]

\* C4: every run, completed or halted, returns a list with one element for
\* each declared output, the i-th being the result of the i-th declared
\* output or a StoppingTaskHolder, in declaration order.
C4_OnePerOutput ==
    Finished =>
       /\ Len(ret.result) = Len(pl.outputs)
       /\ \A i \in 1..Len(pl.outputs) :
             \/ ret.result[i].stop
             \/ ret.result[i] = Value(cache[pl.outputs[i].node][pl.outputs[i].slot])

\* C5: StoppingTaskHolder.in_ of the returned list is true for every run a
\* conditional stop halted and false for every run that completed.
C5_InSeparatesRuns == Finished => (In_(ret.result) <=> ret.outcome = "halted")

\* C5 witness: a run halted at the producer of every declared output
C5_Witness ==
    /\ Halted
    /\ \A i \in 1..Len(pl.outputs) : pl.outputs[i].node = ret.at
    /\ In_(ret.result)

\* C6: the entry task's binder holds the input most recently supplied, also
\* across halted runs, and run() without arguments returns what the last run
\* that was given an input returned.
C6_RunWithoutArgs ==
    /\ Args(entry) = << Plain(lastX) >>
    /\ (Finished /\ callArg = 0 /\ argRet # NoRet) => ret = argRet

\* C6 witness: run() has halted as the run before it, which was given the input
C6_Witness ==
    /\ Halted
    /\ callArg = 0
    /\ argRet # NoRet
    /\ argRet.outcome = "halted"

\* C7: a run returns what the first run with the same input returned,
\* whatever runs were made in between.
C7_SameArgsSameResult == Finished => ret = seen[lastX]

\* C7 witness: a run was given an input an earlier run had, another input
\* having been run as well, and the pipeline has a conditional stop
C7_Witness ==
    /\ Finished
    /\ again
    /\ callArg # 0
    /\ pl.stops # {}
    /\ \E y \in Inputs : y # lastX /\ seen[y] # NoRet /\ seen[y].outcome # ret.outcome


\* the value a consumer is to get for one of its arguments: what the producer
\* holds in the slot the argument refers to
SlotValue(r) == cache[r.node][r.slot]

\* the values task n is to get, one after the other (a task of the README
\* pipelines has two arguments at most)
Received(n) ==
    LET d == pl.tasks[n].deps
    IN  IF Len(d) = 0 THEN << >>
        ELSE IF Len(d) = 1 THEN SlotValue(d[1])
        ELSE SlotValue(d[1]) \o SlotValue(d[2])

\* the values task n is to get, one for each argument
ReceivedValues(n) ==
    IF n = pl.input THEN << << lastX >> >>
    ELSE [i \in 1..Len(pl.tasks[n].deps) |-> SlotValue(pl.tasks[n].deps[i])]

\* the mark the function of task n puts behind them
MarkOf(n) == ResultMark(pl.tasks[n].name, ReceivedValues(n))

\* C17: in a run every task is evaluated once at most, a task with two
\* outputs included, whether its slots are consumed by other tasks or listed
\* as outputs, and once exactly when the run completes; every task that has
\* run was given, for each argument, the value its producer holds in the
\* slot the argument names, and slot k of a producer holds its k-th result.
C17_SplitEvaluatedOnce ==
    /\ \A i, j \in 1..Len(ran) : ran[i] = ran[j] => i = j
    /\ (pc = "idle" /\ ret.outcome = "completed") => SeqRange(ran) = Reachable(pl)
    /\ \A n \in SeqRange(ran) :
          /\ \A k \in 1..pl.tasks[n].outs : cache[n][k][1] = n /\ cache[n][k][2] = k
          /\ n # pl.input =>
                \A k \in 1..pl.tasks[n].outs :
                   cache[n][k] = << n, k >> \o Received(n) \o MarkOf(n)

\* C17 witness: the split pipeline has completed a run in which one task took
\* the first output of split and another its second output
C17_Witness ==
    /\ pl.tasks = SplitTasks
    /\ pc = "idle"
    /\ ret.outcome = "completed"
    /\ SeqRange(ran) = 1..4
    /\ cache[3][1] = << 3, 1 >> \o cache[2][2]
    /\ cache[4][1] = << 4, 1 >> \o cache[2][1] \o cache[3][1]
    /\ is_string(cache[4][1])
    /\ ~is_string(cache[1][1])
    /\ cache[2][1] # cache[2][2]


\* what output slot k of task n yields in a run on input x of a pipeline that
\* has no conditional stop: the callable applied to what its producers yield
RECURSIVE ExpectedOf(_, _, _, _)
RECURSIVE ExpectedArgs(_, _, _, _)
ExpectedOf(p, n, k, x) ==
    << n, k >> \o (IF n = p.input THEN << x >> ELSE ExpectedArgs(p, p.tasks[n].deps, 1, x))
              \o ResultMark(p.tasks[n].name,
                            IF n = p.input THEN << << x >> >>
                            ELSE [i \in 1..Len(p.tasks[n].deps) |->
                                     ExpectedOf(p, p.tasks[n].deps[i].node,
                                                p.tasks[n].deps[i].slot, x)])

ExpectedArgs(p, deps, i, x) ==
    IF i > Len(deps) THEN << >>
    ELSE ExpectedOf(p, deps[i].node, deps[i].slot, x) \o ExpectedArgs(p, deps, i + 1, x)

\* the result list of the same pipeline built without conditional stops
WithoutStops(p, x) ==
    [i \in 1..Len(p.outputs) |->
        [stop |-> FALSE, name |-> "", val |-> ExpectedOf(p, p.outputs[i].node, p.outputs[i].slot, x)]]

\* every registered predicate returns a falsy value on the result of its task
AllPredicatesFalsy ==
    \A n \in Reachable(pl) :
        pl.tasks[n].name \in pl.stops => TypeOf(ExpectedOf(pl, n, 1, lastX)) # "str"

\* C21: a run in which every registered conditional-stop predicate returns a
\* falsy value completes, evaluates every reachable task, and returns the
\* result list of the same pipeline without conditional stops: each output
\* is the result its producer cached in this run, in the slot the output
\* names, and no StoppingTaskHolder is in the list.
C21_FalsyStopsChangeNothing ==
    (pc = "idle" /\ ret.outcome \in {"completed", "halted"} /\ AllPredicatesFalsy) =>
        /\ ret.outcome = "completed"
        /\ SeqRange(ran) = Reachable(pl)
        /\ ~stale
        /\ ret.result = WithoutStops(pl, lastX)
        /\ \A i \in 1..Len(pl.outputs) :
              /\ ~ret.result[i].stop
              /\ ret.result[i].val = cache[pl.outputs[i].node][pl.outputs[i].slot]

\* C21 witness: the split pipeline, with a conditional stop on a task that
\* ran and an output that is the second slot of split, completed a run on
\* the list after a run on a str was halted
C21_Witness ==
    /\ pc = "idle"
    /\ ret.outcome = "completed"
    /\ AllPredicatesFalsy
    /\ \E n \in SeqRange(ran) : pl.tasks[n].name \in pl.stops
    /\ \E i \in 1..Len(pl.outputs) : pl.outputs[i].slot = 2
    /\ \E y \in Inputs : y # lastX /\ seen[y] # NoRet /\ seen[y].outcome = "halted"


\* the tasks at the positions before i of the execution order
Placed(i) == {order[j] : j \in 1..(i - 1)}

\* the execution order lists every reachable task once, each after the tasks
\* it depends on, and at each position the first created task among those
\* whose dependencies are all placed
TopologicalByCreation ==
    /\ SeqRange(order) = Reachable(pl)
    /\ Len(order) = Cardinality(Reachable(pl))
    /\ \A i \in 1..Len(order) :
          /\ DependenciesOf(pl, order[i]) \subseteq Placed(i)
          /\ \A m \in Reachable(pl) \ Placed(i) :
                DependenciesOf(pl, m) \subseteq Placed(i) => order[i] <= m

\* the tasks evaluated in the current or last run are the first ones of the
\* execution order, in that order; all of them when the run completed, those
\* up to the stopping task when it was halted
RunFollowsOrder ==
    /\ Len(ran) <= Len(order)
    /\ \A i \in 1..Len(ran) : ran[i] = order[i]
    /\ (pc = "idle" /\ ret.outcome = "completed") => ran = order
    /\ (pc = "idle" /\ ret.outcome = "halted") => ran # << >> /\ ran[Len(ran)] = ret.at

\* C22: the execution order is a topological order of the reachable tasks
\* with ties broken by creation order; it is fixed at construction: no run
\* changes it; every run evaluates the tasks in that sequence, a halted run
\* a prefix of it.
C22_OrderFixed ==
    [][/\ TopologicalByCreation /\ TopologicalByCreation'
       /\ RunFollowsOrder /\ RunFollowsOrder'
       /\ order' = order
       /\ pl' = pl]_vars

\* C22 witness: the README pipeline with the two branches D and
\* ExampleClass.G, both ready once C has run, completed a run on an input it
\* had been given before, after a run on another input
C22_Witness ==
    /\ pl.tasks = DagTasks
    /\ {4, 7} \subseteq SeqRange(order)
    /\ pc = "idle"
    /\ ret.outcome = "completed"
    /\ ran = order
    /\ again
    /\ \E y \in Inputs : y # lastX /\ seen[y].outcome = "completed"


(***************************************************************************)
(* Pipeline construction and failing callables (specification SpecBuild):  *)
(* Pipeline(...) is tried on task graphs that are sound, that have an      *)
(* output not connected to the entry task, or that have a cycle; a         *)
(* pipeline that was built is run, and one of its callables may raise.     *)
(***************************************************************************)
\* a second task without arguments beside the entry task; its function
\* returns an int, so that concat raises unless the input is an int
TwoRootTasks ==
    << TaskDef("do_nothing", 1, << >>),
       TaskDef("other", 1, << >>),
       TaskDef("duplicate", 1, << Ref(2, 1) >>),
       TaskDef("concat", 1, << Ref(1, 1), Ref(3, 1) >>) >>

\* B and C depend on each other, B on the entry task as well
CyclicTasks ==
    << TaskDef("A", 1, << >>),
       TaskDef("B", 1, << Ref(1, 1), Ref(3, 1) >>),
       TaskDef("C", 1, << Ref(2, 1) >>) >>

\* B and C depend on each other and on nothing else
LoopTasks ==
    << TaskDef("A", 1, << >>),
       TaskDef("B", 1, << Ref(3, 1) >>),
       TaskDef("C", 1, << Ref(2, 1) >>) >>

\* B depends on itself
SelfTasks ==
    << TaskDef("A", 1, << >>),
       TaskDef("B", 1, << Ref(1, 1), Ref(2, 1) >>) >>

\* duplicate hangs on a task that is not the entry task; B and C depend on
\* each other
MixedTasks ==
    << TaskDef("do_nothing", 1, << >>),
       TaskDef("other", 1, << >>),
       TaskDef("duplicate", 1, << Ref(2, 1) >>),
       TaskDef("B", 1, << Ref(1, 1), Ref(5, 1) >>),
       TaskDef("C", 1, << Ref(4, 1) >>) >>

\* a sequence whose third callable raises on some inputs
ExplodeTasks ==
    << TaskDef("do_nothing", 1, << >>),
       TaskDef("duplicate", 1, << Ref(1, 1) >>),
       TaskDef("explode", 1, << Ref(2, 1) >>),
       TaskDef("duplicate", 1, << Ref(3, 1) >>) >>

BuildCandidates ==
    { PipelineDef(DagTasks, 1, << Ref(4, 1) >>, {}),
      PipelineDef(ExplodeTasks, 1, << Ref(4, 1) >>, {}),
      PipelineDef(ExplodeTasks, 1, << Ref(4, 1), Ref(2, 1) >>, {"explode"}),
      PipelineDef(TwoRootTasks, 1, << Ref(4, 1) >>, {}),
      PipelineDef(TwoRootTasks, 1, << Ref(3, 1) >>, {}),
      PipelineDef(TwoRootTasks, 1, << Ref(4, 1), Ref(3, 1) >>, {}),
      PipelineDef(TwoRootTasks, 3, << Ref(1, 1) >>, {}),
      PipelineDef(CyclicTasks, 1, << Ref(3, 1) >>, {}),
      PipelineDef(CyclicTasks, 1, << Ref(1, 1) >>, {}),
      PipelineDef(LoopTasks, 1, << Ref(3, 1) >>, {}),
      PipelineDef(SelfTasks, 1, << Ref(2, 1) >>, {}),
      PipelineDef(MixedTasks, 1, << Ref(3, 1), Ref(5, 1) >>, {}),
      PipelineDef(MixedTasks, 1, << Ref(5, 1), Ref(3, 1) >>, {}) }

NoPipeline == PipelineDef(<< >>, 0, << >>, {})

InitBuild ==
    /\ tp = NoBinder
    /\ last = NoLast
    /\ pl = NoPipeline
    /\ order = << >>
    /\ entry = NoBinder
    /\ cache = << >>
    /\ pc = "unbuilt"
    /\ pos = 1
    /\ ran = << >>
    /\ stale = FALSE
    /\ ret = NoRet
    /\ callArg = 0
    /\ lastX = 1
    /\ argRet = NoRet
    /\ seen = [y \in Inputs |-> NoRet]
    /\ again = FALSE
    /\ built = [outcome |-> "none", of |-> NoPipeline, reachFirst |-> FALSE]

\* Pipeline(input, outputs, conditional_stops) on the tasks of p, the entry
\* task having been created with input x
NewPipeline(p, x, perOutput, reachFirst) ==
    /\ pc = "unbuilt"
    /\ built' = [outcome |-> BuildOutcome(p, perOutput, reachFirst), of |-> p,
                 reachFirst |-> reachFirst]
    /\ IF BuildOutcome(p, perOutput, reachFirst) = "built"
       THEN /\ pl' = p
            /\ order' = ExecutionOrder(p)
            /\ entry' = EntryInit(p.tasks[p.input].name, x)
            /\ cache' = NoCache(p)
            /\ pc' = "idle"
            /\ lastX' = x
       ELSE UNCHANGED << pl, order, entry, cache, pc, lastX >>
    /\ UNCHANGED << tp, last, pos, ran, stale, ret, callArg, argRet, seen, again >>

NextBuild ==
    \/ \E p \in BuildCandidates, x \in Inputs, perOutput \in BOOLEAN, reachFirst \in BOOLEAN :
          NewPipeline(p, x, perOutput, reachFirst)
    \/ \E args \in RunArgs, kwargs \in RunKwargs : RunCall(args, kwargs)
    \/ EvalNext
    \/ Return

SpecBuild == InitBuild /\ [][NextBuild]_vars


(***************************************************************************)
(* Properties of Pipeline construction and of failing callables            *)
(* (specification SpecBuild).  What is expected of a task graph is worked  *)
(* out here from the entry task forward, not by the traversal.             *)
(***************************************************************************)
\* the tasks that depend, directly or through other tasks, on those in found
RECURSIVE Downstream(_, _)
Downstream(p, found) ==
    LET more == found \cup {n \in 1..Len(p.tasks) : DependenciesOf(p, n) \cap found # {}}
    IN  IF more = found THEN found ELSE Downstream(p, more)

\* the declared outputs no chain of dependency edges connects to the entry
Unconnected(p) ==
    {i \in 1..Len(p.outputs) : p.outputs[i].node \notin Downstream(p, {p.input})}

\* task n depends on itself, directly or through other tasks
OnCycle(p, n) == n \in Backward(p, DependenciesOf(p, n))

\* a cycle lies behind output i
CycleBehindOutput(p, i) == \E n \in Backward(p, {p.outputs[i].node}) : OnCycle(p, n)

CycleBehind(p) == \E i \in 1..Len(p.outputs) : CycleBehindOutput(p, i)

\* the first declared output that is unconnected or has a cycle behind it
FirstRejected(p) ==
    LET rej == {i \in 1..Len(p.outputs) : i \in Unconnected(p) \/ CycleBehindOutput(p, i)}
    IN  CHOOSE i \in rej : \A j \in rej : i <= j

Attempted == built.outcome # "none"

\* C19: Pipeline(...) raises the cycle error only when a task behind the
\* outputs depends on itself (two paths to one task, as from D to A in the
\* README, are no cycle), always when every output is connected and a cycle
\* lies behind them, and always when the traversal is what rejects the graph
\* and it meets the cycle from the first output it cannot accept; a graph
\* with a cycle behind its outputs is never built, and every attempt ends
\* with an outcome.
C19_CycleRejected ==
    Attempted =>
       /\ built.outcome \in {"built", "UnreachableOutputError", "CycleError"}
       /\ built.outcome = "CycleError" => CycleBehind(built.of)
       /\ CycleBehind(built.of) => built.outcome # "built"
       /\ (CycleBehind(built.of) /\ Unconnected(built.of) = {}) =>
             built.outcome = "CycleError"
       /\ (~built.reachFirst /\ CycleBehind(built.of)
             /\ CycleBehindOutput(built.of, FirstRejected(built.of))) =>
             built.outcome = "CycleError"
       /\ built.of.tasks = DagTasks => built.outcome = "built"
       /\ pc # "unbuilt" => ~CycleBehind(pl)

\* C19 witness: every output is connected to the entry task, a task behind
\* them depends on itself, and Pipeline(...) has raised the cycle error
C19_Witness ==
    /\ built.outcome = "CycleError"
    /\ pc = "unbuilt"
    /\ Unconnected(built.of) = {}
    /\ CycleBehind(built.of)

\* a run has ended with the error a callable raised
RaisedInRun == pc = "idle" /\ ret.outcome = "raised" /\ ret.at # 0

\* the tasks of the current run hold the results of this run
HoldThisRun ==
    \A m \in SeqRange(ran) : \A k \in 1..pl.tasks[m].outs :
       cache[m][k] = << m, k >> \o (IF m = pl.input THEN << lastX >> ELSE Received(m))
                        \o MarkOf(m)

\* C20: when a callable raises in a run, run ends with that task's error and
\* no result; the tasks evaluated in the run are those before the failing
\* one in the execution order and no other, and they hold the results of
\* this run; the pipeline is idle again, and a run that completes after a
\* failed one returns the results of its own tasks.
C20_RaisePropagates ==
    /\ RaisedInRun =>
          /\ ret.at = order[pos]
          /\ ret.result = << >>
          /\ ran = SubSeq(order, 1, pos - 1)
          /\ HoldThisRun
    /\ (pc = "idle" /\ ret.outcome = "completed"
          /\ \E y \in Inputs : seen[y].outcome = "raised") =>
          /\ ran = order
          /\ HoldThisRun
          /\ ret.result = NormalResult(pl, cache)

\* C20 witness: after a run that completed, a run with another input has
\* ended with the error of the third task, the two tasks before it having
\* been evaluated in that run
C20_Witness ==
    /\ RaisedInRun
    /\ Len(ran) = 2
    /\ pos = 3
    /\ \E y \in Inputs : seen[y].outcome = "completed"

\* no Task.run or Pipeline.run has been called yet
BeforeFirstRun == pc = "unbuilt" \/ (pc = "idle" /\ ret = NoRet)

\* C23: creating the tasks and constructing the Pipeline call no task's
\* function: before the first run no task has been evaluated and no task
\* holds a result, whether the construction succeeded or failed; a built
\* pipeline has recorded the tasks it was given and the entry task the
\* arguments it was created with.
C23_ConstructionRunsNothing ==
    BeforeFirstRun =>
        /\ ran = << >>
        /\ ~stale
        /\ \A n \in 1..Len(cache) : \A k \in 1..Len(cache[n]) : cache[n][k] = << >>
        /\ pc = "idle" =>
              /\ pl = built.of
              /\ Len(cache) = Len(pl.tasks)
              /\ \A n \in 1..Len(cache) : Len(cache[n]) = pl.tasks[n].outs
              /\ entry.exists
              /\ Len(entry.sig) = 1
              /\ entry.sig[1].name \in EntryKeys
              /\ entry.parameters.named[entry.sig[1].name] = [task |-> FALSE, v |-> lastX]
              /\ DictKeys(entry.parameters.named) = {entry.sig[1].name}
        /\ pc = "unbuilt" => cache = << >> /\ ~entry.exists

\* C23 witness: a pipeline with a conditional stop has been built from four
\* tasks and has not been run
C23_Witness ==
    /\ pc = "idle"
    /\ ret = NoRet
    /\ built.outcome = "built"
    /\ Len(pl.tasks) >= 4
    /\ pl.stops # {}
    /\ Len(order) = Len(pl.tasks)


(***************************************************************************)
(* Task.run on a task of its own (specification SpecTask): a task is       *)
(* created with one argument and run with or without a new argument; its   *)
(* function returns one value, or two values where one, two or three       *)
(* outputs were declared, or raises.                                       *)
(***************************************************************************)
\* a task on its own, every declared output being looked at
OneTask(nm, o) ==
    PipelineDef(<< TaskDef(nm, o, << >>) >>, 1, [k \in 1..o |-> Ref(1, k)], {})

\* foo of the notebook's test cell, the README's do_nothing, duplicate and A,
\* split declared with outputs_num=2 as in the README and with outputs_num=3,
\* and a function that raises
TaskCandidates ==
    { OneTask("foo", 1), OneTask("do_nothing", 1), OneTask("duplicate", 1), OneTask("A", 1),
      OneTask("split", 2), OneTask("split", 3), OneTask("explode", 1) }

InitTask ==
    /\ tp = NoBinder
    /\ last = NoLast
    /\ \E p \in TaskCandidates, x \in Inputs : InitPipeline(p, x)

\* Task.run(*args, **kwargs): update on the task's TaskParams, then the
\* function on the evaluated arguments, then one result cached per output
TaskRunCall(args, kwargs) ==
    /\ pc = "idle"
    /\ LET r == Update(entry, args, kwargs)
           res == TaskRun(pl, 1, r.obj, cache)
       IN  IF r.err # "none"
           THEN /\ ret' = [outcome |-> "raised", result |-> << >>, at |-> 0]
                /\ UNCHANGED << entry, cache, ran, callArg, lastX >>
           ELSE /\ entry' = r.obj
                /\ callArg' = Supplied(args, kwargs)
                /\ lastX' = IF Supplied(args, kwargs) # 0 THEN Supplied(args, kwargs) ELSE lastX
                /\ IF Raises(pl, 1, r.obj, cache) \/ ArityError(pl, 1)
                   THEN /\ cache' = CacheAfterRaise(pl, cache)
                        /\ ran' = << >>
                        /\ ret' = [outcome |-> ErrorOf(pl, 1, r.obj, cache),
                                   result |-> << >>, at |-> 1]
                   ELSE /\ cache' = [cache EXCEPT ![1] = res]
                        /\ ran' = << 1 >>
                        /\ ret' = [outcome |-> "completed",
                                   result |-> [k \in 1..Len(res) |-> Value(res[k])],
                                   at |-> 0]
    /\ UNCHANGED << tp, last, pl, order, pc, pos, stale, argRet, seen, again, built >>

NextTask == \E args \in RunArgs, kwargs \in RunKwargs : TaskRunCall(args, kwargs)

SpecTask == InitTask /\ [][NextTask]_vars

\* the number of outputs the task was declared with
Declared == pl.tasks[1].outs

\* C24: Task.run applies update with its arguments first, then calls the
\* function on the evaluated arguments and caches what it returns; a task
\* declared with more than one output whose function returns another number
\* of items ends with the output-arity error, and with the declared number
\* of items each item is cached in its own slot, in order, and returned.
C24_TaskRun ==
    (pc = "idle" /\ ret.outcome \in {"completed", "OutputArityError"}) =>
        /\ entry.parameters.named[entry.sig[1].name] = [task |-> FALSE, v |-> lastX]
        /\ callArg # 0 => lastX = callArg
        /\ ret.outcome = "OutputArityError" <=>
              (Declared > 1 /\ Declared # (IF pl.tasks[1].name = "split" THEN 2 ELSE 1))
        /\ ret.outcome = "OutputArityError" => ret.result = << >>
        /\ ret.outcome = "completed" =>
              /\ Len(cache[1]) = Declared
              /\ Len(ret.result) = Declared
              /\ \A k \in 1..Declared :
                    /\ cache[1][k] = << 1, k, lastX >> \o MarkOf(1)
                    /\ ret.result[k] = [stop |-> FALSE, name |-> "", val |-> cache[1][k]]

\* C24 witness: split declared with three outputs was run with a new
\* argument and ended with the output-arity error
C24_Witness ==
    /\ pc = "idle"
    /\ ret.outcome = "OutputArityError"
    /\ Declared = 3
    /\ callArg # 0
    /\ entry.parameters.named[entry.sig[1].name] = [task |-> FALSE, v |-> callArg]

\* a task declared with two outputs has cached one item per slot
C24_SlotsFilled ==
    /\ pc = "idle"
    /\ ret.outcome = "completed"
    /\ Declared = 2
    /\ callArg # 0
    /\ cache[1][1] # cache[1][2]


(***************************************************************************)
(* TaskParams on its own (specification SpecParams): an object is built    *)
(* for final_boss and then updated, with every argument list within the    *)
(* bounds.                                                                 *)
(***************************************************************************)
\* the positional argument lists of a call that may pass up to m values
ArgLists(m) == UNION {[1..n -> Vals] : n \in 0..Min(MaxArgs, m)}

CallKeys == {"a", "b", "d"} \cup ExtraKeys

\* the keyword argument lists of n keywords at most, no name twice, in every
\* order
RECURSIVE KwListsUpTo(_)
KwListsUpTo(n) ==
    IF n = 0 THEN {<< >>}
    ELSE LET less == KwListsUpTo(n - 1)
             more == {Append(l, KwArg(k, v)) :
                         l \in {m \in less : Len(m) = n - 1}, k \in CallKeys, v \in Vals}
         IN  less \cup {l \in more : \A i, j \in 1..n : i # j => l[i].key # l[j].key}

\* the keyword arguments of a call that may pass up to m more values
KwLists(m) == KwListsUpTo(Min(MaxKw, m))

\* the number of values a call passes
Items(args, kwargs) == Len(args) + Len(kwargs)

\* what the extra positional arguments of a call are: "none", "plain", "tasks"
\* or "mixed"
ShapeOf(sig, args) ==
    LET np == Len(NamesOfKind(sig, {"POSITIONAL_OR_KEYWORD"}))
        extra == {args[i] : i \in (np + 1)..Len(args)}
    IN  IF extra = {} THEN "none"
        ELSE IF extra \subseteq PlainVals THEN "plain"
        ELSE IF extra \subseteq TaskVals THEN "tasks"
        ELSE "mixed"

\* the call's arguments resolve to a named parameter that holds a task
HitsNamedTask(obj, args, kwargs) ==
    LET b == SigBind(obj.sig, args, KwDict(kwargs), TRUE)
    IN  b.ok /\ \E k \in DictKeys(b.named) : IsTask(obj.parameters.named[k])

\* the extra keywords of a call, the ones that go to **kwargs, when it binds
ExtraKeywords(sig, args, kwargs, partial) ==
    LET b == SigBind(sig, args, KwDict(kwargs), partial)
    IN  IF b.ok THEN DictKeys(b.varkw) ELSE {}

\* the named parameters the arguments of a call resolve to, when it binds
NamedKeywords(sig, args, kwargs, partial) ==
    LET b == SigBind(sig, args, KwDict(kwargs), partial)
    IN  IF b.ok THEN DictKeys(b.named) ELSE {}

\* the **kwargs keys that were bound before a call and are not after it
DroppedKeys(old, new) == DictKeys(old.parameters.varkw) \ DictKeys(new.parameters.varkw)

\* TaskParams(final_boss, *init_args, **init_kwargs)
Construct(sig, init_args, init_kwargs) ==
    /\ ~tp.exists
    /\ LET r == TaskParamsInit(sig, init_args, init_kwargs)
       IN  /\ tp' = r.obj
           /\ last' = [op |-> "init", err |-> r.err,
                       bindOk |-> SigBind(sig, init_args, KwDict(init_kwargs), FALSE).ok,
                       hitNamedTask |-> FALSE,
                       shape |-> ShapeOf(sig, init_args),
                       kwKeys |-> ExtraKeywords(sig, init_args, init_kwargs, FALSE),
                       namedKeys |-> NamedKeywords(sig, init_args, init_kwargs, FALSE),
                       dropped |-> {},
                       n |-> IF r.err = "none" THEN Items(init_args, init_kwargs) ELSE 0,
                       tick |-> ~last.tick]
    /\ UNCHANGED pipeVars

\* tp.update(*args, **kwargs)
UpdateCall(args, kwargs) ==
    /\ tp.exists
    /\ LET r == Update(tp, args, kwargs)
       IN  /\ tp' = r.obj
           /\ last' = [op |-> "update", err |-> r.err,
                       bindOk |-> SigBind(tp.sig, args, KwDict(kwargs), TRUE).ok,
                       hitNamedTask |-> HitsNamedTask(tp, args, kwargs),
                       shape |-> ShapeOf(tp.sig, args),
                       kwKeys |-> ExtraKeywords(tp.sig, args, kwargs, TRUE),
                       namedKeys |-> NamedKeywords(tp.sig, args, kwargs, TRUE),
                       dropped |-> DroppedKeys(tp, r.obj),
                       n |-> last.n + Items(args, kwargs),
                       tick |-> ~last.tick]
    /\ UNCHANGED pipeVars

InitParams ==
    /\ tp = NoBinder
    /\ last = NoLast
    /\ InitPipeline(PipelineDef(<< >>, 0, << >>, {}), 1)

NextParams ==
    \/ \E args \in ArgLists(MaxItems) :
          \E kwargs \in KwLists(MaxItems - Len(args)) : Construct(final_boss, args, kwargs)
    \/ \E args \in ArgLists(MaxItems - last.n) :
          \E kwargs \in KwLists(MaxItems - last.n - Len(args)) : UpdateCall(args, kwargs)

SpecParams == InitParams /\ [][NextParams]_vars

(***************************************************************************)
(* TaskParams driven with positional arguments only (specification         *)
(* SpecVarargs): the calls that fill and replace *args need three values   *)
(* at least each, so the object is given more values here.                 *)
(***************************************************************************)
\* most positional values passed to one TaskParams object, over all its calls
MaxPosItems == 8

NextVarargs ==
    \/ \E args \in ArgLists(MaxPosItems) : Construct(final_boss, args, << >>)
    \/ \E args \in ArgLists(MaxPosItems - last.n) : UpdateCall(args, << >>)

SpecVarargs == InitParams /\ [][NextVarargs]_vars


(***************************************************************************)
(* Properties of TaskParams (specification SpecParams).                    *)
(***************************************************************************)
\* C8 as claimed: when a named parameter holds a task, every update whose
\* arguments resolve to that parameter raises the overwrite error and leaves
\* the whole parameter mapping as it was.
C8_OverwriteRejected ==
    [][(last'.op = "update" /\ last'.tick # last.tick /\ last'.hitNamedTask)
          => (last'.err = "OverwriteTypeError" /\ tp'.parameters = tp.parameters)]_vars

\* C9 as claimed: a named parameter or a key of **kwargs that holds a task,
\* bound by the constructor or by a later update, holds the same task in
\* every later state.
C9_TaskBindingPermanent ==
    [][tp.exists =>
          \A k \in AllKeys :
             /\ IsTask(tp.parameters.named[k]) =>
                   tp'.parameters.named[k] = tp.parameters.named[k]
             /\ IsTask(tp.parameters.varkw[k]) =>
                   tp'.parameters.varkw[k] = tp.parameters.varkw[k]]_vars

\* C10: constructing a TaskParams whose extra positional arguments hold a
\* task and a plain value raises the ValueError of the mixed collection and
\* yields no object; with plain values only, or tasks only, the object is
\* built and holds the collection.
C10_MixedVarargsRejected ==
    (last.op = "init" /\ last.bindOk) =>
       /\ last.shape = "mixed" => (last.err = "ValueError" /\ ~tp.exists)
       /\ last.shape \in {"plain", "tasks"} =>
             /\ last.err = "none"
             /\ tp.exists
             /\ tp.parameters.varargs # << >>
             /\ tp.all_varargs_are_tasks = (last.shape = "tasks")
             /\ AllTasks(tp.parameters.varargs) = (last.shape = "tasks")

\* C10 witness: TaskParams(final_boss, 1, 2, 3, t) has raised the ValueError
C10_Witness ==
    /\ last.op = "init"
    /\ last.bindOk
    /\ last.shape = "mixed"
    /\ last.err = "ValueError"
    /\ ~tp.exists

\* C11 as claimed: in every state the extra positional arguments a TaskParams
\* holds are all tasks or all plain values, never a mix of the two.
C11_VarargsAllOrNone == tp.exists => ~MixedVarargs(tp.parameters.varargs)

\* C12 as claimed: when *args holds tasks, every update that passes extra
\* positional arguments raises the overwrite error and leaves every binding
\* as it was.
C12_TaskVarargsKept ==
    [][(/\ tp.exists
        /\ tp.parameters.varargs # << >>
        /\ AllTasks(tp.parameters.varargs)
        /\ last'.op = "update"
        /\ last'.tick # last.tick
        /\ last'.bindOk
        /\ last'.shape # "none")
          => (last'.err = "OverwriteTypeError" /\ tp'.parameters = tp.parameters)]_vars

\* C13 as claimed: when an update passes extra keywords, none of them a key
\* that holds a task, and replaces **kwargs, every key of **kwargs that held a
\* task before still holds that task afterwards, and the new keywords are
\* there as well.
C13_VarkwTasksMergedBack ==
    [][(/\ tp.exists
        /\ last'.op = "update"
        /\ last'.tick # last.tick
        /\ last'.err = "none"
        /\ last'.kwKeys # {}
        /\ \A k \in last'.kwKeys : ~IsTask(tp.parameters.varkw[k]))
          => /\ \A k \in AllKeys :
                   IsTask(tp.parameters.varkw[k]) =>
                      tp'.parameters.varkw[k] = tp.parameters.varkw[k]
             /\ \A k \in last'.kwKeys : tp'.parameters.varkw[k] # Absent]_vars

\* C14 as claimed: an update that passes an extra keyword whose key holds a
\* task in **kwargs raises the overwrite error, the TypeError an overwritten
\* named parameter raises, and leaves every binding as it was.
C14_VarkwOverwriteRejected ==
    [][(/\ tp.exists
        /\ last'.op = "update"
        /\ last'.tick # last.tick
        /\ last'.bindOk
        /\ \E k \in last'.kwKeys : IsTask(tp.parameters.varkw[k]))
          => (last'.err = "OverwriteTypeError" /\ tp'.parameters = tp.parameters)]_vars

\* the entries of a dict as the keyword arguments of a call
RECURSIVE KwSeqOf(_, _)
KwSeqOf(d, keys) ==
    IF keys = {} THEN << >>
    ELSE LET k == CHOOSE x \in keys : TRUE
         IN  << KwArg(k, d[k]) >> \o KwSeqOf(d, keys \ {k})

\* the call (*tp.args, **tp.kwargs) bound to the signature again
Rebound(obj) == TaskParamsInit(obj.sig, Args(obj), KwSeqOf(Kwargs(obj), DictKeys(Kwargs(obj))))

\* C15: after every successful TaskParams(final_boss, ...), falsy
\* values included, the views args and kwargs rebuild the call: every bound
\* named value is in args or in kwargs, and binding final_boss to
\* (args, kwargs) again gives the same parameter mapping.
C15_ViewsRebuildCall ==
    (tp.exists /\ last.op = "init") =>
       /\ \A k \in DictKeys(tp.parameters.named) :
             \/ \E i \in 1..Len(Args(tp)) : Args(tp)[i] = tp.parameters.named[k]
             \/ Kwargs(tp)[k] = tp.parameters.named[k]
       /\ Rebound(tp).err = "none"
       /\ Rebound(tp).obj.parameters = tp.parameters

\* C16: evaluated_args and evaluated_kwargs have the length, the order and
\* the keys of args and kwargs; where those hold a task the evaluated view
\* holds the task's evaluated_result, and every other element is the same.
C16_EvaluatedViews ==
    tp.exists =>
       /\ Len(evaluated_args(tp)) = Len(Args(tp))
       /\ \A i \in 1..Len(Args(tp)) :
             /\ ~IsTask(evaluated_args(tp)[i])
             /\ IsTask(Args(tp)[i]) =>
                   evaluated_args(tp)[i] = evaluated_result(Args(tp)[i])
             /\ ~IsTask(Args(tp)[i]) => evaluated_args(tp)[i] = Args(tp)[i]
       /\ DictKeys(evaluated_kwargs(tp)) = DictKeys(Kwargs(tp))
       /\ \A k \in DictKeys(Kwargs(tp)) :
             /\ ~IsTask(evaluated_kwargs(tp)[k])
             /\ IsTask(Kwargs(tp)[k]) =>
                   evaluated_kwargs(tp)[k] = evaluated_result(Kwargs(tp)[k])
             /\ ~IsTask(Kwargs(tp)[k]) => evaluated_kwargs(tp)[k] = Kwargs(tp)[k]

\* C16 witness: args holds a plain value and a task, kwargs holds a plain
\* value and a task, and the evaluated views differ from both
C16_Witness ==
    /\ tp.exists
    /\ \E i, j \in 1..Len(Args(tp)) : IsTask(Args(tp)[i]) /\ ~IsTask(Args(tp)[j])
    /\ \E k, l \in DictKeys(Kwargs(tp)) : IsTask(Kwargs(tp)[k]) /\ ~IsTask(Kwargs(tp)[l])
    /\ evaluated_args(tp) # Args(tp)
    /\ evaluated_kwargs(tp) # Kwargs(tp)


\* a call of update has just returned without an error
UpdateSucceeds == last'.tick # last.tick /\ last'.op = "update" /\ last'.err = "none"

\* C25: an update that succeeds leaves every named parameter its arguments
\* do not resolve to as it was, and *args as it was when the call has no
\* extra positional argument; the signature the object was built for is
\* never changed, by the constructor, update or a failed call.
C25_UpdateFrame ==
    [][/\ tp.exists => tp'.sig = tp.sig
       /\ tp'.exists => tp'.sig = final_boss
       /\ UpdateSucceeds =>
             /\ \A k \in AllKeys \ last'.namedKeys :
                   tp'.parameters.named[k] = tp.parameters.named[k]
             /\ \A k \in last'.namedKeys : tp'.parameters.named[k] # Absent
             /\ last'.shape = "none" => tp'.parameters.varargs = tp.parameters.varargs]_vars

\* C25 witness: an update that named d only has succeeded on an object that
\* holds a, b and a value in *args
C25_Witness ==
    /\ tp.exists
    /\ last.op = "update"
    /\ last.err = "none"
    /\ last.namedKeys = {"d"}
    /\ last.shape = "none"
    /\ last.kwKeys = {}
    /\ tp.parameters.varargs # << >>
    /\ tp.parameters.named["a"] # Absent
    /\ tp.parameters.named["b"] # Absent
    /\ tp.parameters.named["a"] # tp.parameters.named["d"]

\* C26: an update that succeeds and has an extra keyword leaves no plain
\* entry under **kwargs but the ones it supplies: a plain entry bound before
\* and not supplied again is gone; an update that succeeds and has no extra
\* keyword leaves **kwargs as it was.
C26_VarkwPlainReplaced ==
    [][UpdateSucceeds =>
          IF last'.kwKeys # {}
          THEN \A k \in AllKeys :
                  /\ (tp.parameters.varkw[k] # Absent /\ ~tp.parameters.varkw[k].task
                         /\ k \notin last'.kwKeys) => tp'.parameters.varkw[k] = Absent
                  /\ (tp'.parameters.varkw[k] # Absent /\ ~tp'.parameters.varkw[k].task) =>
                         k \in last'.kwKeys
          ELSE tp'.parameters.varkw = tp.parameters.varkw]_vars

\* C26 witness: an update with the extra keyword t has succeeded and the
\* plain entry that was bound under e is gone
C26_Witness ==
    /\ tp.exists
    /\ last.op = "update"
    /\ last.err = "none"
    /\ last.kwKeys = {"t"}
    /\ last.dropped = {"e"}
    /\ DictKeys(tp.parameters.varkw) = {"t"}
    /\ ~tp.parameters.varkw["t"].task

\* an update without an extra keyword has succeeded on an object that holds
\* a plain entry under **kwargs
C26_VarkwKept ==
    /\ tp.exists
    /\ last.op = "update"
    /\ last.err = "none"
    /\ last.kwKeys = {}
    /\ last.namedKeys # {}
    /\ \E k \in AllKeys : tp.parameters.varkw[k] # Absent /\ ~tp.parameters.varkw[k].task

=============================================================================
